---------------------------- MODULE Spec2Model ----------------------------
(***************************************************************************)
(* TidyData ML service: the vector store gateway (QdrantClient), the       *)
(* multi-collection search orchestration and the HTTP handlers that use    *)
(* them, run by a single asyncio event loop against an external vector     *)
(* store.                                                                  *)
(*                                                                         *)
(* One step of a task is what the event loop runs without interruption:    *)
(* from the moment a coroutine is resumed to its next real suspension (an  *)
(* HTTP call to the store, or asyncio.gather).  The ready queue is FIFO,   *)
(* as asyncio's is; a reply of the store appends the waiting task to it.   *)
(*                                                                         *)
(* Scores and vector coordinates are integers in hundredths: a unit vector *)
(* has norm 100 and the cosine of two unit vectors is their dot product    *)
(* divided by 100.                                                         *)
(***************************************************************************)
EXTENDS Integers, Sequences, FiniteSets

(***************************************************************************)
(* Bounds of the model.                                                    *)
(***************************************************************************)
\* requests the service handles at the same time
MaxReqs == 1
\* points the service is asked to add during one run
MaxAdds == 1
\* largest `limit` a caller passes
MaxLimit == 3
\* hits per collection and distinct scores in the stand-alone merge
MaxHits == 3
MaxScore == 2
\* the sentence vectors tried have coordinates in -MaxRaw..MaxRaw
MaxRaw == 5

(***************************************************************************)
(* Program constants.                                                      *)
(***************************************************************************)
TextDim == 384
ClipDim == 512
HttpOk == 200
HttpNotFound == 404

\* self.collections, in insertion order (dict iteration order)
CollOrder == <<"documents", "images">>
Collections == {"documents", "images"}

collections_dim(name) == IF name = "documents" THEN TextDim ELSE ClipDim

(***************************************************************************)
(* Inputs.                                                                 *)
(***************************************************************************)
Texts == {"cat", "dog"}
ValidImages == {"img1", "img2"}
Uploads == ValidImages \cup {"notimg"}
Limits == 1..MaxLimit
Thresholds == {50, 90}

(***************************************************************************)
(* Embedding providers.  The encoders are black boxes; what the code adds  *)
(* is the normalisation and the shape (a 1 x dim matrix for one input).    *)
(* A row is [dim, xy]: its nominal dimension and two coordinates standing  *)
(* for the direction.                                                      *)
(***************************************************************************)
Row(d, x, y) == [dim |-> d, xy |-> <<x, y>>]

\* a vector of length 1.0, in hundredths
Unit == 100

RECURSIVE isqrt(_, _, _)
\* the integer square root of n, known to lie in lo..hi
isqrt(n, lo, hi) ==
    IF lo = hi THEN lo
    ELSE LET mid == (lo + hi + 1) \div 2
         IN  IF mid * mid <= n THEN isqrt(n, mid, hi) ELSE isqrt(n, lo, mid - 1)

\* a / b rounded to the nearest integer, b > 0
RoundDiv(a, b) == (2 * a + b) \div (2 * b)

\* the sentence vector the transformer computes for a text, before any
\* normalisation
forward(text) == IF text = "cat" THEN <<5, 0>> ELSE <<3, 4>>

\* encode(..., normalize_embeddings=False): the sentence vector as it is
encode_as_is(raw, normalize_embeddings) == Row(TextDim, raw[1], raw[2])

\* SentenceTransformer.encode(texts, normalize_embeddings=...): with the flag,
\* each sentence vector divided by its length, at the resolution of Unit
encode(raw, normalize_embeddings) ==
    IF ~normalize_embeddings THEN Row(TextDim, raw[1], raw[2])
    ELSE LET len2 == raw[1] * raw[1] + raw[2] * raw[2]
             len == isqrt(len2 * Unit * Unit, 0, len2 * Unit)
         IN  Row(TextDim, RoundDiv(raw[1] * Unit * Unit, len),
                          RoundDiv(raw[2] * Unit * Unit, len))

\* EmbeddingModel.get_embeddings(str): encode([text], normalize_embeddings=True)
get_embeddings(text) == << encode(forward(text), TRUE) >>

\* ImageModel.get_text_embedding: CLIP text features / norm
get_text_embedding(text) ==
    << IF text = "cat" THEN Row(ClipDim, 0, 100) ELSE Row(ClipDim, 80, 60) >>

\* the mime sniff letting every upload through
validate_image_any(upload) == TRUE

\* ImageModel._validate_image: the mime sniff
validate_image(upload) == upload \in ValidImages

\* ImageModel.get_image_embedding on a valid image: CLIP image features / norm
get_image_embedding(upload) ==
    << IF upload = "img1" THEN Row(ClipDim, 0, 100) ELSE Row(ClipDim, 60, 80) >>

\* ImageModel.encode_image_base64
encode_image_base64(upload) == <<"b64", upload>>

\* ndarray.flatten().tolist(): the rows of the matrix, concatenated
RECURSIVE flatten(_)
flatten(m) ==
    IF Len(m) = 1 THEN m[1]
    ELSE LET r == flatten(Tail(m))
         IN  [dim |-> m[1].dim + r.dim, xy |-> m[1].xy \o r.xy]


(***************************************************************************)
(* The vector store, as the gateway sees it through its REST interface.    *)
(***************************************************************************)
\* what the collections hold when the service starts
SeedPoints(c) ==
    IF c = "documents"
    THEN { [id |-> 1, vector |-> Row(TextDim, 100, 0), payload |-> [text |-> "cat"]],
           [id |-> 2, vector |-> Row(TextDim, 60, 80), payload |-> [text |-> "dog"]],
           [id |-> 3, vector |-> Row(TextDim, 100, 0), payload |-> [text |-> "cat"]] }
    ELSE { [id |-> 4, vector |-> Row(ClipDim, 0, 100),
            payload |-> [image_data |-> encode_image_base64("img1"),
                         metadata |-> [filename |-> "img1"]]],
           [id |-> 5, vector |-> Row(ClipDim, 60, 80),
            payload |-> [image_data |-> encode_image_base64("img2"),
                         metadata |-> [filename |-> "img2"]]] }
\* ids below this one are taken by the seed points; uuid4 yields fresh ones
FirstFreshId == Cardinality(SeedPoints("documents") \cup SeedPoints("images")) + 1

\* cosine similarity of two unit vectors, in hundredths
Cosine(a, b) == (a.xy[1] * b.xy[1] + a.xy[2] * b.xy[2]) \div 100

HitOf(p, q) == [id |-> p.id, score |-> Cosine(p.vector, q), payload |-> p.payload]

NonIncreasing(s) == \A i \in 1..(Len(s) - 1) : s[i].score >= s[i + 1].score

Min(a, b) == IF a < b THEN a ELSE b

RECURSIVE SeqsOver(_, _)
\* the sequences of n distinct elements of S
SeqsOver(S, n) ==
    IF n = 0 THEN { <<>> }
    ELSE UNION { { <<x>> \o t : t \in SeqsOver(S \ {x}, n - 1) } : x \in S }

\* the result lists the store may answer a search with: the best `limit`
\* points of the collection scoring at least the threshold, best first; the
\* order among equal scores is the store's choice
SearchAnswers(pts, q, limit, score_threshold) ==
    LET Q == { HitOf(p, q) : p \in { r \in pts : Cosine(r.vector, q) >= score_threshold } }
        n == Min(limit, Cardinality(Q))
    IN  { s \in SeqsOver(Q, n) :
            /\ NonIncreasing(s)
            /\ \A h \in Q : (\A i \in 1..n : s[i] # h) =>
                               \A i \in 1..n : s[i].score >= h.score }

(***************************************************************************)
(* HTTP exchange between the gateway and the store.                        *)
(***************************************************************************)
NoVal == [none |-> TRUE]
\* Python's None where a string is expected
NoText == "None"
NoReq == [op |-> "none"]
NoResp == [kind |-> "none"]

ProbeReq(name) == [op |-> "probe", coll |-> name]
CreateReq(name, create_data) == [op |-> "create", coll |-> name, body |-> create_data]
UpsertReq(name, point_data) == [op |-> "upsert", coll |-> name, body |-> point_data]
SearchReq(name, search_data) == [op |-> "search", coll |-> name, body |-> search_data]

HttpResp(code, res) == [kind |-> "http", status |-> code, result |-> res]
TransportError == [kind |-> "transport"]

HttpAccepted == 202
HttpServerError == 500

\* what a store in trouble answers instead of serving the request: a server
\* error, or for a write, that it is accepted but not applied yet
FaultStatuses(op) == IF op = "upsert" THEN {HttpAccepted, HttpServerError}
                     ELSE {HttpServerError}

(***************************************************************************)
(* What a call returns: a value, or an exception that propagates.          *)
(***************************************************************************)
Ret(v) == [exc |-> FALSE, value |-> v]
Raise(e) == [exc |-> TRUE, value |-> e]

(***************************************************************************)
(* QdrantClient: the decisions of the gateway.                             *)
(***************************************************************************)
\* ensure_collections: `if not self._collections_initialized`
ensure_needs_init(flag) == ~flag

\* the create issued whenever the probe is not answered with 200
probe_not_ok(resp) == resp.kind = "http" /\ resp.status # HttpOk

\* _init_collections: `if response.status_code == 404`; an exception of the
\* probe is logged and the collection skipped
probe_says_absent(resp) == resp.kind = "http" /\ resp.status = HttpNotFound

\* _init_collections: create_data
create_data(name) ==
    [name |-> name, vectors |-> [size |-> collections_dim(name), distance |-> "Cosine"]]

\* add_document: payload preparation
prepare_payload(payload, text) ==
    LET base == IF payload = NoVal THEN <<>> ELSE payload
    IN  IF text = NoText THEN base
        ELSE [k \in DOMAIN base \cup {"text"} |-> IF k = "text" THEN text ELSE base[k]]

\* add_document: point_data
point_data(document_id, embedding, text, payload) ==
    [points |-> << [id |-> document_id,
                    vector |-> flatten(embedding),
                    payload |-> prepare_payload(payload, text)] >>]

\* any 2xx status taken for success
add_document_any_2xx(resp) ==
    IF resp.kind = "transport" THEN Ret(FALSE)
    ELSE Ret(resp.status \in 200..299)

\* add_document: `return response.status_code == 200`, `except: return False`
add_document_return(resp) ==
    IF resp.kind = "transport" THEN Ret(FALSE)
    ELSE Ret(resp.status = HttpOk)

\* search_data asking the store for the best hit only
search_data_top_one(query_embedding, limit, score_threshold) ==
    [vector |-> flatten(query_embedding),
     limit |-> 1,
     params |-> [hnsw_ef |-> 128, exact |-> FALSE],
     score_threshold |-> score_threshold,
     with_payload |-> TRUE,
     with_vector |-> FALSE]

\* search_documents: search_data
search_data(query_embedding, limit, score_threshold) ==
    [vector |-> flatten(query_embedding),
     limit |-> limit,
     params |-> [hnsw_ef |-> 128, exact |-> FALSE],
     score_threshold |-> score_threshold,
     with_payload |-> TRUE,
     with_vector |-> FALSE]

\* search_documents without its `except`: a transport error propagates
search_documents_no_except(resp) ==
    IF resp.kind = "transport" THEN Raise("TransportError")
    ELSE IF resp.status # HttpOk THEN Ret(<<>>)
    ELSE Ret(resp.result)

\* search_documents with response.raise_for_status() in place of the status
\* test, and the exception let through
search_documents_raise_for_status(resp) ==
    IF resp.kind = "transport" THEN Ret(<<>>)
    ELSE IF resp.status # HttpOk THEN Raise("HTTPStatusError")
    ELSE Ret(resp.result)

\* search_documents: `if status != 200: return []`, `return results["result"]`,
\* `except: return []`
search_documents_return(resp) ==
    IF resp.kind = "transport" THEN Ret(<<>>)
    ELSE IF resp.status # HttpOk THEN Ret(<<>>)
    ELSE Ret(resp.result)

(***************************************************************************)
(* search_multiple_collections: label, merge, sort, truncate.              *)
(***************************************************************************)
\* every hit labelled as text
source_type_always_text(collection_name) == "text"

source_type(collection_name) == IF collection_name = "documents" THEN "text" ELSE "image"

label(result, collection_name) ==
    [id |-> result.id, score |-> result.score, payload |-> result.payload,
     source_type |-> source_type(collection_name)]

RECURSIVE combine(_, _)
\* for collection_name, collection_results in zip(keys, results): append each
combine(keys, results) ==
    IF keys = <<>> \/ results = <<>> THEN <<>>
    ELSE [i \in 1..Len(results[1]) |-> label(results[1][i], keys[1])]
         \o combine(Tail(keys), Tail(results))

\* x placed ahead of the entries of its own score: an unstable sort
insert_desc_unstable(sorted, x) ==
    LET k == Cardinality({ i \in 1..Len(sorted) : sorted[i].score > x.score })
    IN  SubSeq(sorted, 1, k) \o <<x>> \o SubSeq(sorted, k + 1, Len(sorted))

\* x placed behind the entries that score at least as much: the order of
\* equal scores is kept
insert_desc(sorted, x) ==
    LET k == Cardinality({ i \in 1..Len(sorted) : sorted[i].score >= x.score })
    IN  SubSeq(sorted, 1, k) \o <<x>> \o SubSeq(sorted, k + 1, Len(sorted))

RECURSIVE sort_desc_from(_, _)
sort_desc_from(sorted, todo) ==
    IF todo = <<>> THEN sorted
    ELSE sort_desc_from(insert_desc(sorted, Head(todo)), Tail(todo))

\* combined_results.sort(key=score, reverse=True): a stable sort
sort_by_score(combined) == sort_desc_from(<<>>, combined)

\* the cut made at limit instead of limit * 2
truncate_at_limit(combined, limit) ==
    IF Len(combined) > limit THEN SubSeq(combined, 1, limit) ELSE combined

\* `if len(combined_results) > limit * 2: combined_results[:limit * 2]`
truncate(combined, limit) ==
    IF Len(combined) > limit * 2 THEN SubSeq(combined, 1, limit * 2) ELSE combined

merge(keys, results, limit) == truncate(sort_by_score(combine(keys, results)), limit)

\* what search_multiple_collections returns once gather has returned or raised
search_multiple_collections_return(keys, gathered, limit) ==
    IF gathered.exc THEN Ret(<<>>)
    ELSE Ret(merge(keys, gathered.value, limit))

(***************************************************************************)
(* main.py: what the handlers compute.                                     *)
(***************************************************************************)
Response(body) == [status |-> HttpOk, body |-> body]
\* raise HTTPException(status_code=500, detail=...)
HTTPException(detail) == [status |-> HttpServerError, detail |-> detail]

\* the text model's vector sent to both collections
query_embeddings_text_only(query) ==
    << <<"documents", get_embeddings(query)>>,
       <<"images", get_embeddings(query)>> >>

\* health_check: the body of the answer
health_check(text, image, client, ready_flag) ==
    [status |-> "healthy",
     ready |-> ready_flag,
     services |-> [text_model |-> text, image_model |-> image, qdrant |-> client]]

\* unified_search: the query vector of each collection, in dict order
query_embeddings(query) ==
    << <<"documents", get_embeddings(query)>>,
       <<"images", get_text_embedding(query)>> >>

\* unified_search: the keys a hit's projection reads
content_keys(result) ==
    IF result.source_type = "text" THEN {"text"} ELSE {"metadata", "image_data"}

\* unified_search: processed_result
processed_result(result) ==
    [id |-> result.id, score |-> result.score, source_type |-> result.source_type,
     content |-> [k \in content_keys(result) |-> result.payload[k]]]

\* unified_search: the response for the merged results; a hit without the
\* keys of its projection is a KeyError, reported as a 500
unified_search_response(query, results) ==
    IF \E i \in 1..Len(results) : ~(content_keys(results[i]) \subseteq DOMAIN results[i].payload)
    THEN HTTPException("KeyError")
    ELSE Response([query |-> query,
                   results |-> [i \in 1..Len(results) |-> processed_result(results[i])]])

\* add_document / add_image: `if not success: raise HTTPException`
store_response(success, doc_id) ==
    IF ~success THEN HTTPException("Failed to store")
    ELSE Response([id |-> doc_id, status |-> "stored"])

\* add_image: metadata
image_metadata(upload) == [filename |-> upload]

\* find_similar_images: processed_results
similar_images_response(upload, results) ==
    IF \E i \in 1..Len(results) : ~({"metadata", "image_data"} \subseteq DOMAIN results[i].payload)
    THEN HTTPException("KeyError")
    ELSE Response([query_image |-> upload,
                   results |-> [i \in 1..Len(results) |->
                                  [id |-> results[i].id, score |-> results[i].score,
                                   metadata |-> results[i].payload["metadata"],
                                   image_data |-> results[i].payload["image_data"]]]])

(***************************************************************************)
(* State.                                                                  *)
(***************************************************************************)
VARIABLES
    storeDim,      \* store: the vector size of each collection, 0 when absent
    points,        \* store: the points of each collection
    reachable,     \* store: whether it can be reached over the network
    qdrant,        \* main.qdrant is not None
    initialized,   \* qdrant._collections_initialized
    text_model,    \* main.text_model is not None
    image_model,   \* main.image_model is not None
    is_ready,      \* main.is_ready
    tasks,         \* the coroutines of the event loop, by task
    ready,         \* the event loop's queue of tasks ready to run
    nextId,        \* the next fresh uuid
    mIn,           \* stand-alone merge: limit and per-collection hit lists
    mStage,        \* stand-alone merge: how far the merge has got
    mOut,          \* stand-alone merge: the list so far
    eRaw,          \* stand-alone embedding: the encoder's sentence vector
    eOut           \* stand-alone embedding: what get_embeddings returned

storeVars == <<storeDim, points, reachable>>
modelVars == <<text_model, image_model, is_ready>>
mergeVars == <<mIn, mStage, mOut>>
embedVars == <<eRaw, eOut>>
vars == <<storeDim, points, reachable, qdrant, initialized, text_model, image_model, is_ready,
          tasks, ready, nextId, mIn, mStage, mOut, eRaw, eOut>>

StartupTask == <<0, "main">>
ModelsTask == <<0, "models">>
Handler(r) == <<r, "main">>
Child(r, collection_name) == <<r, collection_name>>
TaskIds == {StartupTask, ModelsTask}
           \cup { Handler(r) : r \in 1..MaxReqs }
           \cup { Child(r, c) : r \in 1..MaxReqs, c \in Collections }

NoSent == [probe |-> 0, create |-> 0, upsert |-> 0, search |-> 0]

NoTask ==
    [kind |-> "none", pc |-> "idle", query |-> "none", limit |-> 0,
     score_threshold |-> 0, collection_name |-> "none", embedding |-> NoVal,
     embeddings |-> <<>>, doc_id |-> 0, payload |-> NoVal, text |-> NoText, idx |-> 0,
     req |-> NoReq, resp |-> NoResp, result |-> NoVal, out |-> NoVal, sent |-> NoSent]

NewTask(kind) == [NoTask EXCEPT !.kind = kind, !.pc = "start"]

\* the task has sent `req` and waits for the reply
Send(T, req, pc) ==
    [T EXCEPT !.req = req, !.resp = NoResp, !.pc = pc,
              !.sent = [T.sent EXCEPT ![req.op] = @ + 1]]

\* the coroutine has returned: what it was called with, the last exchange
\* with the store and the outcome stay until the response has gone out
Finish(T, result, out) ==
    [T EXCEPT !.pc = "done", !.idx = 0, !.result = result, !.out = out]

St(tk, rd) == [tasks |-> tk, ready |-> rd]

Waiting(t) == tasks[t].req # NoReq /\ tasks[t].resp = NoResp

\* task t is the one the event loop runs next, and is at pc in kind
Running(t, kinds, pc) ==
    /\ ready # <<>>
    /\ Head(ready) = t
    /\ tasks[t].kind \in kinds
    /\ tasks[t].pc = pc

(***************************************************************************)
(* The gateway's coroutines, from one suspension to the next.  T is the    *)
(* running task's frame, q the ready queue behind it; the value is the     *)
(* tasks and the ready queue the step leaves.                              *)
(***************************************************************************)
\* search_multiple_collections: one search_documents coroutine per entry of
\* `embeddings`, in dict order; gather makes each a task and schedules it
gather_children(r, T) ==
    [i \in 1..Len(T.embeddings) |->
        [id |-> Child(r, T.embeddings[i][1]),
         frame |-> [NewTask("search_documents") EXCEPT
                        !.collection_name = T.embeddings[i][1],
                        !.embedding = T.embeddings[i][2],
                        !.limit = T.limit,
                        !.score_threshold = T.score_threshold]]]

\* each search awaited in the loop: only the first runs before the caller waits
scheduled_first_only(ch) == <<ch[1].id>>

\* `await asyncio.gather(*tasks)`: every coroutine is scheduled, in order,
\* before the caller suspends
scheduled(ch) == [i \in 1..Len(ch) |-> ch[i].id]

\* what the calling operation does once ensure_collections has returned
after_ensure(t, T, q) ==
    CASE T.kind = "startup" ->
            \* asyncio.create_task(initialize_models())
            St([tasks EXCEPT ![t] = Finish([T EXCEPT !.req = NoReq, !.resp = NoResp],
                                           NoVal, NoVal),
                             ![ModelsTask] = NewTask("models")],
               Append(q, ModelsTask))
      [] T.kind = "unified_search" ->
            LET ch == gather_children(t[1], T)
                ids == { ch[i].id : i \in 1..Len(ch) }
                frameOf(c) == (CHOOSE i \in 1..Len(ch) : ch[i].id = c)
            IN  St([x \in TaskIds |->
                       IF x = t THEN [T EXCEPT !.pc = "gather_wait"]
                       ELSE IF x \in ids THEN ch[frameOf(x)].frame
                       ELSE tasks[x]],
                   q \o scheduled(ch))
      [] T.kind \in {"add_document", "add_image"} ->
            St([tasks EXCEPT ![t] =
                    Send(T, UpsertReq(T.collection_name,
                                      point_data(T.doc_id, T.embedding, T.text, T.payload)),
                         "upsert_wait")], q)
      [] T.kind \in {"find_similar_images", "search_documents"} ->
            St([tasks EXCEPT ![t] =
                    Send(T, SearchReq(T.collection_name,
                                      search_data(T.embedding, T.limit, T.score_threshold)),
                         "search_wait")], q)

\* _init_collections: the probe of the idx-th registered collection
init_probe(t, T, idx, q) ==
    St([tasks EXCEPT ![t] = Send([T EXCEPT !.idx = idx], ProbeReq(CollOrder[idx]),
                                 "init_probe")], q)

\* _init_collections: on to the next collection, or back to the caller
init_next(t, T, q) ==
    IF T.idx < Len(CollOrder) THEN init_probe(t, T, T.idx + 1, q)
    ELSE after_ensure(t, [T EXCEPT !.idx = 0], q)

\* `await self.ensure_collections()` at the head of every gateway operation
ensure_collections(t, T, q) ==
    IF ensure_needs_init(initialized) THEN init_probe(t, T, 1, q)
    ELSE after_ensure(t, T, q)

\* the step sets tasks and ready as n says
Becomes(n) == tasks' = n.tasks /\ ready' = n.ready

(***************************************************************************)
(* Initial state: the process has started, the startup hook is scheduled;  *)
(* the store holds each collection or not, with the registered vector size *)
(* or another one.                                                         *)
(***************************************************************************)
EmbedIdle == eRaw = <<0, 0>> /\ eOut = <<>>

MergeIdle == /\ mIn = [limit |-> 0, lists |-> <<>>]
             /\ mStage = "off"
             /\ mOut = <<>>

Init ==
    /\ storeDim \in [Collections -> {0, TextDim, ClipDim}]
    /\ points = [c \in Collections |->
                    IF storeDim[c] = collections_dim(c) THEN SeedPoints(c) ELSE {}]
    /\ reachable \in BOOLEAN
    /\ qdrant = FALSE
    /\ initialized = FALSE
    /\ text_model = FALSE
    /\ image_model = FALSE
    /\ is_ready = FALSE
    /\ tasks = [t \in TaskIds |-> IF t = StartupTask THEN NewTask("startup") ELSE NoTask]
    /\ ready = <<StartupTask>>
    /\ nextId = FirstFreshId
    /\ MergeIdle
    /\ EmbedIdle

(***************************************************************************)
(* Startup.                                                                *)
(***************************************************************************)
\* startup_event: qdrant = QdrantClient(...); await qdrant.ensure_collections()
Startup ==
    /\ Running(StartupTask, {"startup"}, "start")
    /\ qdrant' = TRUE
    /\ Becomes(ensure_collections(StartupTask, tasks[StartupTask], Tail(ready)))
    /\ UNCHANGED <<storeVars, initialized, modelVars, nextId, mergeVars, embedVars>>

\* _init_collections resumed with the reply to the existence probe
InitProbeReply(t) ==
    /\ Running(t, {"startup", "unified_search", "add_document", "add_image",
                   "find_similar_images", "search_documents"}, "init_probe")
    /\ LET T == tasks[t]
           name == CollOrder[T.idx]
       IN  IF probe_says_absent(T.resp)
           THEN /\ Becomes(St([tasks EXCEPT ![t] =
                                  Send(T, CreateReq(name, create_data(name)), "init_create")],
                              Tail(ready)))
                /\ UNCHANGED initialized
           ELSE /\ Becomes(init_next(t, T, Tail(ready)))
                /\ initialized' = (initialized \/ T.idx = Len(CollOrder))
    /\ UNCHANGED <<storeVars, qdrant, modelVars, nextId, mergeVars, embedVars>>

\* _init_collections resumed with the reply to the create request: logged
InitCreateReply(t) ==
    /\ Running(t, {"startup", "unified_search", "add_document", "add_image",
                   "find_similar_images", "search_documents"}, "init_create")
    /\ Becomes(init_next(t, tasks[t], Tail(ready)))
    /\ initialized' = (initialized \/ tasks[t].idx = Len(CollOrder))
    /\ UNCHANGED <<storeVars, qdrant, modelVars, nextId, mergeVars, embedVars>>

\* initialize_models: no suspension between the two loads; a load that
\* raises ends the task and leaves the rest unset
LoadModels ==
    /\ Running(ModelsTask, {"models"}, "start")
    /\ \E loaded \in {"none", "text", "both"} :
          /\ text_model' = (loaded \in {"text", "both"})
          /\ image_model' = (loaded = "both")
          /\ is_ready' = (loaded = "both")
    /\ Becomes(St([tasks EXCEPT ![ModelsTask] = Finish(tasks[ModelsTask], NoVal, NoVal)],
                  Tail(ready)))
    /\ UNCHANGED <<storeVars, qdrant, initialized, nextId, mergeVars, embedVars>>

(***************************************************************************)
(* The store answers a request in flight.                                  *)
(***************************************************************************)
Outcome(resp, dim, pts) == [resp |-> resp, dim |-> dim, pts |-> pts]
Unchanged(resp) == Outcome(resp, storeDim, points)

\* the store working as its REST interface says
Served(req) ==
    LET c == req.coll
    IN  CASE req.op = "probe" ->
               { Unchanged(HttpResp(IF storeDim[c] = 0 THEN HttpNotFound ELSE HttpOk, <<>>)) }
          [] req.op = "create" ->
               IF storeDim[c] # 0 THEN { Unchanged(HttpResp(409, <<>>)) }
               ELSE { Outcome(HttpResp(HttpOk, <<>>),
                              [storeDim EXCEPT ![c] = req.body.vectors.size], points) }
          [] req.op = "upsert" ->
               LET new == { req.body.points[i] : i \in 1..Len(req.body.points) }
               IN  IF storeDim[c] = 0 THEN { Unchanged(HttpResp(HttpNotFound, <<>>)) }
                   ELSE IF \E p \in new : p.vector.dim # storeDim[c]
                   THEN { Unchanged(HttpResp(400, <<>>)) }
                   ELSE { Outcome(HttpResp(HttpOk, <<>>), storeDim,
                                  [points EXCEPT ![c] =
                                      { p \in @ : \A n \in new : n.id # p.id } \cup new]) }
          [] req.op = "search" ->
               IF storeDim[c] = 0 THEN { Unchanged(HttpResp(HttpNotFound, <<>>)) }
               ELSE IF req.body.vector.dim # storeDim[c]
               THEN { Unchanged(HttpResp(400, <<>>)) }
               ELSE { Unchanged(HttpResp(HttpOk, s)) :
                        s \in SearchAnswers(points[c], req.body.vector, req.body.limit,
                                            req.body.score_threshold) }

\* the store unreachable or in trouble: the request has no effect
Failed(req) ==
    { Unchanged(TransportError) }
    \cup { Unchanged(HttpResp(code, <<>>)) : code \in FaultStatuses(req.op) }

\* what a request can come to: anything while the store is reachable, only a
\* transport error while it is not
Replies(req) ==
    IF reachable THEN Served(req) \cup Failed(req) ELSE { Unchanged(TransportError) }

\* the reply reaches the waiting task, which becomes ready
StoreReply(t) ==
    /\ Waiting(t)
    /\ \E o \in Replies(tasks[t].req) :
          /\ storeDim' = o.dim
          /\ points' = o.pts
          /\ tasks' = [tasks EXCEPT ![t].resp = o.resp]
    /\ ready' = Append(ready, t)
    /\ UNCHANGED <<reachable, qdrant, initialized, modelVars, nextId, mergeVars, embedVars>>

\* the store, or the network to it, goes down or comes back
StoreOutage ==
    /\ reachable' = ~reachable
    /\ UNCHANGED <<storeDim, points, qdrant, initialized, modelVars, tasks, ready,
                   nextId, mergeVars, embedVars>>

(***************************************************************************)
(* Requests arrive once the startup hook has returned.                     *)
(***************************************************************************)
Serving == tasks[StartupTask].pc = "done"

\* the request slots that handle no request
FreeSlots == { r \in 1..MaxReqs : tasks[Handler(r)].kind = "none" }

\* the server accepts a request and schedules its handler
Arrive(frame) ==
    /\ Serving
    /\ \E r \in FreeSlots :
          /\ \A o \in FreeSlots : r <= o
          /\ tasks' = [tasks EXCEPT ![Handler(r)] = frame]
          /\ ready' = Append(ready, Handler(r))
    /\ UNCHANGED <<storeVars, qdrant, initialized, modelVars, nextId, mergeVars, embedVars>>

\* the response has gone out: the request's tasks are dropped
Respond(r) ==
    /\ tasks[Handler(r)].pc = "done"
    /\ \A c \in Collections : tasks[Child(r, c)].pc \in {"idle", "done"}
    /\ tasks' = [t \in TaskIds |-> IF t[1] = r THEN NoTask ELSE tasks[t]]
    /\ UNCHANGED <<storeVars, qdrant, initialized, modelVars, ready, nextId, mergeVars, embedVars>>

\* uuids are left for another point
CanAdd == nextId < FirstFreshId + MaxAdds

\* GET /search?query=&limit=&score_threshold=
ArriveUnifiedSearch ==
    \E query \in Texts, limit \in Limits, score_threshold \in Thresholds :
        Arrive([NewTask("unified_search") EXCEPT
                    !.query = query, !.limit = limit, !.score_threshold = score_threshold])

\* POST /documents
ArriveAddDocument ==
    /\ CanAdd
    /\ \E text \in Texts : Arrive([NewTask("add_document") EXCEPT !.query = text])

\* POST /images
ArriveAddImage ==
    /\ CanAdd
    /\ \E upload \in Uploads : Arrive([NewTask("add_image") EXCEPT !.query = upload])

\* POST /images/similar
ArriveFindSimilarImages ==
    \E upload \in Uploads, limit \in Limits, score_threshold \in Thresholds :
        Arrive([NewTask("find_similar_images") EXCEPT
                    !.query = upload, !.limit = limit, !.score_threshold = score_threshold])

\* GET /health
ArriveHealthCheck == Arrive(NewTask("health_check"))

(***************************************************************************)
(* Handlers, from their first statement to the first suspension.           *)
(***************************************************************************)
\* a handler that ends at once with `out`
EndsWith(t, out) ==
    Becomes(St([tasks EXCEPT ![t] = Finish(tasks[t], NoVal, out)], Tail(ready)))

\* health_check: the flags as the globals stand
StartHealthCheck(t) ==
    /\ Running(t, {"health_check"}, "start")
    /\ EndsWith(t, Response(health_check(text_model, image_model, qdrant, is_ready)))
    /\ UNCHANGED <<storeVars, qdrant, initialized, modelVars, nextId, mergeVars, embedVars>>

\* unified_search: both embeddings, then search_multiple_collections
StartUnifiedSearch(t) ==
    /\ Running(t, {"unified_search"}, "start")
    /\ IF ~text_model \/ ~image_model
       THEN EndsWith(t, HTTPException("AttributeError"))
       ELSE Becomes(ensure_collections(
                        t, [tasks[t] EXCEPT !.embeddings = query_embeddings(tasks[t].query)],
                        Tail(ready)))
    /\ UNCHANGED <<storeVars, qdrant, initialized, modelVars, nextId, mergeVars, embedVars>>

\* add_document (main): embedding, uuid, then qdrant.add_document
StartAddDocument(t) ==
    /\ Running(t, {"add_document"}, "start")
    /\ IF ~text_model
       THEN /\ EndsWith(t, HTTPException("AttributeError"))
            /\ UNCHANGED nextId
       ELSE /\ Becomes(ensure_collections(
                        t, [tasks[t] EXCEPT !.embedding = get_embeddings(tasks[t].query),
                                            !.doc_id = nextId,
                                            !.text = tasks[t].query,
                                            !.collection_name = "documents"],
                        Tail(ready)))
            /\ nextId' = nextId + 1
    /\ UNCHANGED <<storeVars, qdrant, initialized, modelVars, mergeVars, embedVars>>

\* add_image: embedding (after the mime sniff), uuid, then qdrant.add_document
StartAddImage(t) ==
    /\ Running(t, {"add_image"}, "start")
    /\ IF ~image_model
       THEN /\ EndsWith(t, HTTPException("AttributeError"))
            /\ UNCHANGED nextId
       ELSE IF ~validate_image(tasks[t].query)
       THEN /\ EndsWith(t, HTTPException("Invalid image format"))
            /\ UNCHANGED nextId
       ELSE /\ Becomes(ensure_collections(
                        t, [tasks[t] EXCEPT
                               !.embedding = get_image_embedding(tasks[t].query),
                               !.doc_id = nextId,
                               !.payload = [image_data |-> encode_image_base64(tasks[t].query),
                                            metadata |-> image_metadata(tasks[t].query)],
                               !.collection_name = "images"],
                        Tail(ready)))
            /\ nextId' = nextId + 1
    /\ UNCHANGED <<storeVars, qdrant, initialized, modelVars, mergeVars, embedVars>>

\* find_similar_images: embedding, then qdrant.search_documents on "images"
StartFindSimilarImages(t) ==
    /\ Running(t, {"find_similar_images"}, "start")
    /\ IF ~image_model
       THEN EndsWith(t, HTTPException("AttributeError"))
       ELSE IF ~validate_image(tasks[t].query)
       THEN EndsWith(t, HTTPException("Invalid image format"))
       ELSE Becomes(ensure_collections(
                        t, [tasks[t] EXCEPT
                               !.embedding = get_image_embedding(tasks[t].query),
                               !.collection_name = "images"],
                        Tail(ready)))
    /\ UNCHANGED <<storeVars, qdrant, initialized, modelVars, nextId, mergeVars, embedVars>>

\* a search_documents task made by gather runs up to its POST
StartSearchDocuments(t) ==
    /\ Running(t, {"search_documents"}, "start")
    /\ Becomes(ensure_collections(t, tasks[t], Tail(ready)))
    /\ UNCHANGED <<storeVars, qdrant, initialized, modelVars, nextId, mergeVars, embedVars>>

(***************************************************************************)
(* Handlers resumed with the store's reply.                                *)
(***************************************************************************)
\* add_document with the write sent again after a failure
UpsertReplyRetry(t) ==
    /\ Running(t, {"add_document", "add_image"}, "upsert_wait")
    /\ LET T == tasks[t]
           success == add_document_return(T.resp)
       IN  IF ~success.value /\ T.sent.upsert < 2
           THEN Becomes(St([tasks EXCEPT ![t] = Send(T, T.req, "upsert_wait")], Tail(ready)))
           ELSE Becomes(St([tasks EXCEPT ![t] =
                               Finish(T, success, store_response(success.value, T.doc_id))],
                           Tail(ready)))
    /\ UNCHANGED <<storeVars, qdrant, initialized, modelVars, nextId, mergeVars, embedVars>>

\* qdrant.add_document returns; the handler answers
UpsertReply(t) ==
    /\ Running(t, {"add_document", "add_image"}, "upsert_wait")
    /\ LET T == tasks[t]
           success == add_document_return(T.resp)
           out == IF success.exc THEN HTTPException("Exception")
                  ELSE store_response(success.value, T.doc_id)
       IN  Becomes(St([tasks EXCEPT ![t] = Finish(T, success, out)], Tail(ready)))
    /\ UNCHANGED <<storeVars, qdrant, initialized, modelVars, nextId, mergeVars, embedVars>>

\* qdrant.search_documents returns to find_similar_images
SearchReply(t) ==
    /\ Running(t, {"find_similar_images"}, "search_wait")
    /\ LET T == tasks[t]
           results == search_documents_return(T.resp)
           out == IF results.exc THEN HTTPException("Exception")
                  ELSE similar_images_response(T.query, results.value)
       IN  Becomes(St([tasks EXCEPT ![t] = Finish(T, results, out)], Tail(ready)))
    /\ UNCHANGED <<storeVars, qdrant, initialized, modelVars, nextId, mergeVars, embedVars>>

\* the tasks gather made for unified search r
Children(r) == { Child(r, tasks[Handler(r)].embeddings[i][1]) :
                   i \in 1..Len(tasks[Handler(r)].embeddings) }

\* asyncio.wait(..., return_when=FIRST_COMPLETED) in place of gather
gather_wakes_first_completed(raised, others_done) == TRUE

\* asyncio.gather (return_exceptions=False): the awaiting coroutine is woken
\* by the first exception of a child, or when every child has returned
gather_wakes(raised, others_done) == raised \/ others_done

\* a search_documents task of gather returns
GatheredSearchReply(t) ==
    /\ Running(t, {"search_documents"}, "search_wait")
    /\ LET T == tasks[t]
           p == Handler(t[1])
           results == search_documents_return(T.resp)
           wake == /\ tasks[p].pc = "gather_wait"
                   /\ gather_wakes(results.exc,
                                   \A s \in Children(t[1]) \ {t} : tasks[s].pc = "done")
       IN  Becomes(St([tasks EXCEPT ![t] = Finish(T, results, NoVal),
                                    ![p].pc = IF wake THEN "gather_ready" ELSE @],
                      IF wake THEN Append(Tail(ready), p) ELSE Tail(ready)))
    /\ UNCHANGED <<storeVars, qdrant, initialized, modelVars, nextId, mergeVars, embedVars>>

\* what `await asyncio.gather(*tasks)` evaluates to in unified search r
gathered(r) ==
    LET T == tasks[Handler(r)]
        kid(i) == tasks[Child(r, T.embeddings[i][1])]
    IN  IF \E i \in 1..Len(T.embeddings) : kid(i).pc = "done" /\ kid(i).result.exc
        THEN Raise("Exception")
        ELSE Ret([i \in 1..Len(T.embeddings) |-> kid(i).result.value])

\* search_multiple_collections resumes after gather and returns; the handler
\* projects the hits and answers
GatherResume(t) ==
    /\ Running(t, {"unified_search"}, "gather_ready")
    /\ LET T == tasks[t]
           keys == [i \in 1..Len(T.embeddings) |-> T.embeddings[i][1]]
           results == search_multiple_collections_return(keys, gathered(t[1]), T.limit)
           out == IF results.exc THEN HTTPException("Exception")
                  ELSE unified_search_response(T.query, results.value)
       IN  Becomes(St([tasks EXCEPT ![t] = Finish(T, results, out)], Tail(ready)))
    /\ UNCHANGED <<storeVars, qdrant, initialized, modelVars, nextId, mergeVars, embedVars>>

(***************************************************************************)
(* The service.                                                            *)
(***************************************************************************)
Next ==
    \/ Startup
    \/ LoadModels
    \/ ArriveUnifiedSearch
    \/ ArriveAddDocument
    \/ ArriveAddImage
    \/ ArriveFindSimilarImages
    \/ ArriveHealthCheck
    \/ StoreOutage
    \/ \E r \in 1..MaxReqs : Respond(r)
    \/ \E t \in TaskIds :
          \/ InitProbeReply(t)
          \/ InitCreateReply(t)
          \/ StoreReply(t)
          \/ StartUnifiedSearch(t)
          \/ StartAddDocument(t)
          \/ StartAddImage(t)
          \/ StartFindSimilarImages(t)
          \/ StartSearchDocuments(t)
          \/ StartHealthCheck(t)
          \/ UpsertReply(t)
          \/ SearchReply(t)
          \/ GatheredSearchReply(t)
          \/ GatherResume(t)

Spec == Init /\ [][Next]_vars

(***************************************************************************)
(* The gateway on its own: one client, just constructed, whose             *)
(* search_documents is called by coroutines that start at any time, also   *)
(* while another call is awaiting the store.                               *)
(***************************************************************************)
GatewayInit ==
    /\ storeDim \in [Collections -> {0, TextDim, ClipDim}]
    /\ points = [c \in Collections |->
                    IF storeDim[c] = collections_dim(c) THEN SeedPoints(c) ELSE {}]
    /\ reachable \in BOOLEAN
    /\ qdrant = TRUE
    /\ initialized = FALSE
    /\ text_model = TRUE
    /\ image_model = TRUE
    /\ is_ready = TRUE
    /\ tasks = [t \in TaskIds |-> NoTask]
    /\ ready = <<>>
    /\ nextId = FirstFreshId
    /\ MergeIdle
    /\ EmbedIdle

\* the tasks that call the gateway
Callers == { Child(r, c) : r \in 1..MaxReqs, c \in Collections }

\* a coroutine calling client.search_documents(collection_name, ...) is scheduled
CallSearchDocuments ==
    /\ \E t \in Callers, text \in Texts, limit \in {MaxLimit}, score_threshold \in {50} :
          /\ tasks[t].kind = "none"
          /\ tasks' = [tasks EXCEPT ![t] =
                          [NewTask("search_documents") EXCEPT
                              !.collection_name = t[2],
                              !.embedding = IF t[2] = "documents" THEN get_embeddings(text)
                                            ELSE get_text_embedding(text),
                              !.limit = limit,
                              !.score_threshold = score_threshold]]
          /\ ready' = Append(ready, t)
    /\ UNCHANGED <<storeVars, qdrant, initialized, modelVars, nextId, mergeVars, embedVars>>

GatewayNext ==
    \/ CallSearchDocuments
    \/ \E t \in Callers :
          \/ StartSearchDocuments(t)
          \/ InitProbeReply(t)
          \/ InitCreateReply(t)
          \/ StoreReply(t)
          \/ GatheredSearchReply(t)

GatewaySpec == GatewayInit /\ [][GatewayNext]_vars

(***************************************************************************)
(* get_embeddings on its own, for any sentence vector the transformer may  *)
(* compute for a valid text: any vector but the null one.                  *)
(***************************************************************************)
RawVectors == ((-MaxRaw..MaxRaw) \X (-MaxRaw..MaxRaw)) \ { <<0, 0>> }

EmbedInit ==
    /\ storeDim = [c \in Collections |-> 0]
    /\ points = [c \in Collections |-> {}]
    /\ reachable = TRUE
    /\ qdrant = FALSE
    /\ initialized = FALSE
    /\ text_model = TRUE
    /\ image_model = FALSE
    /\ is_ready = FALSE
    /\ tasks = [t \in TaskIds |-> NoTask]
    /\ ready = <<>>
    /\ nextId = FirstFreshId
    /\ MergeIdle
    /\ eRaw \in RawVectors
    /\ eOut = <<>>

\* get_embeddings(text) for a text with sentence vector eRaw
EmbedText ==
    /\ eOut = <<>>
    /\ eOut' = << encode(eRaw, TRUE) >>
    /\ UNCHANGED <<storeVars, qdrant, initialized, modelVars, tasks, ready, nextId,
                   mergeVars, eRaw>>

EmbedSpec == EmbedInit /\ [][EmbedText]_vars

(***************************************************************************)
(* The merge of search_multiple_collections on its own, for any hit lists  *)
(* gather may hand it: one list per collection, of any length and order.   *)
(***************************************************************************)
RECURSIVE ScoreLists(_)
\* the sequences of at most n scores
ScoreLists(n) ==
    IF n = 0 THEN { <<>> }
    ELSE ScoreLists(n - 1)
         \cup { Append(s, x) : s \in { l \in ScoreLists(n - 1) : Len(l) = n - 1 },
                               x \in 1..MaxScore }

\* the hit list of the k-th collection with these scores; ids tell hits apart
HitList(k, scores) ==
    [i \in 1..Len(scores) |->
        [id |-> k * 10 + i, score |-> scores[i],
         payload |-> IF CollOrder[k] = "documents" THEN [text |-> "cat"]
                     ELSE [image_data |-> encode_image_base64("img1"),
                           metadata |-> image_metadata("img1")]]]

ServiceIdle ==
    /\ storeDim = [c \in Collections |-> 0]
    /\ points = [c \in Collections |-> {}]
    /\ reachable = TRUE
    /\ qdrant = FALSE
    /\ initialized = FALSE
    /\ text_model = FALSE
    /\ image_model = FALSE
    /\ is_ready = FALSE
    /\ tasks = [t \in TaskIds |-> NoTask]
    /\ ready = <<>>
    /\ nextId = FirstFreshId

MergeInit ==
    /\ ServiceIdle
    /\ EmbedIdle
    /\ \E limit \in Limits, a \in ScoreLists(MaxHits), b \in ScoreLists(MaxHits) :
          mIn = [limit |-> limit, lists |-> <<HitList(1, a), HitList(2, b)>>]
    /\ mStage = "gathered"
    /\ mOut = <<>>

serviceVars == <<storeDim, points, reachable, qdrant, initialized, text_model, image_model,
                 is_ready, tasks, ready, nextId>>

\* label every hit and append it to combined_results
MergeCombine ==
    /\ mStage = "gathered"
    /\ mOut' = combine(CollOrder, mIn.lists)
    /\ mStage' = "combined"
    /\ UNCHANGED <<mIn, serviceVars, embedVars>>

\* combined_results.sort(...)
MergeSort ==
    /\ mStage = "combined"
    /\ mOut' = sort_by_score(mOut)
    /\ mStage' = "sorted"
    /\ UNCHANGED <<mIn, serviceVars, embedVars>>

\* the cut to limit * 2, and the return
MergeTruncate ==
    /\ mStage = "sorted"
    /\ mOut' = truncate(mOut, mIn.limit)
    /\ mStage' = "returned"
    /\ UNCHANGED <<mIn, serviceVars, embedVars>>

MergeNext == MergeCombine \/ MergeSort \/ MergeTruncate

MergeSpec == MergeInit /\ [][MergeNext]_vars

(***************************************************************************)
(* Properties.                                                             *)
(***************************************************************************)
\* the store answered with a 2xx status
Success(resp) == resp.kind = "http" /\ resp.status \in 200..299

\* the calls of search_documents that have returned or raised
SearchCalls ==
    { t \in TaskIds : /\ tasks[t].kind \in {"search_documents", "find_similar_images"}
                      /\ tasks[t].pc = "done"
                      /\ tasks[t].req.op = "search" }

\* C1: search_documents never raises; it returns the empty list when the
\* store is unreachable, the transport fails or the status is not a success,
\* and a non-empty list only when the store answered with success, and then
\* the store's `result` list.
C1_SearchFailsSoft ==
    \A t \in SearchCalls :
        LET T == tasks[t]
        IN  /\ ~T.result.exc
            /\ ~Success(T.resp) => T.result.value = <<>>
            /\ T.result.value # <<>> => Success(T.resp) /\ T.result.value = T.resp.result
            /\ (T.resp.kind = "http" /\ T.resp.status = HttpOk) => T.result.value = T.resp.result

\* a search whose transport failed on a collection that holds points has
\* returned the empty list
C1_Witness ==
    \E t \in SearchCalls :
        /\ tasks[t].resp.kind = "transport"
        /\ points[tasks[t].req.coll] # {}
        /\ tasks[t].result = Ret(<<>>)

\* the unified searches that launched their searches and have answered
UnifiedDone ==
    { r \in 1..MaxReqs : /\ tasks[Handler(r)].kind = "unified_search"
                         /\ tasks[Handler(r)].pc = "done"
                         /\ tasks[Handler(r)].embeddings # <<>> }

\* the search of collection c in unified search r was answered with 200
Healthy(r, c) ==
    /\ tasks[Child(r, c)].resp.kind = "http"
    /\ tasks[Child(r, c)].resp.status = HttpOk

\* the hits the store answered that search with
StoreHits(r, c) == IF Healthy(r, c) THEN tasks[Child(r, c)].resp.result ELSE <<>>

\* what the response shows of hit h of collection c
Shown(h, c) ==
    [id |-> h.id, score |-> h.score,
     source_type |-> IF c = "documents" THEN "text" ELSE "image",
     content |-> IF c = "documents" THEN [text |-> h.payload["text"]]
                 ELSE [metadata |-> h.payload["metadata"],
                       image_data |-> h.payload["image_data"]]]

\* the response of unified search r holds every hit of the lists of cs once
ShowsExactly(r, cs) ==
    LET out == tasks[Handler(r)].out
    IN  /\ out.status = HttpOk
        /\ Len(out.body.results)
             = (IF "documents" \in cs THEN Len(StoreHits(r, "documents")) ELSE 0)
               + (IF "images" \in cs THEN Len(StoreHits(r, "images")) ELSE 0)
        /\ \A c \in cs : \A i \in 1..Len(StoreHits(r, c)) :
              \E j \in 1..Len(out.body.results) :
                  out.body.results[j] = Shown(StoreHits(r, c)[i], c)

\* C2: with both collections answering and no more than 2 x limit hits in
\* all, the response holds exactly the hits of both, none lost and none
\* twice, by non-increasing score, each with the source type of its collection.
C2_HealthyMerge ==
    \A r \in UnifiedDone :
        ( /\ \A c \in Collections : Healthy(r, c)
          /\ Len(StoreHits(r, "documents")) + Len(StoreHits(r, "images"))
               <= 2 * tasks[Handler(r)].limit )
        => /\ ShowsExactly(r, Collections)
           /\ NonIncreasing(tasks[Handler(r)].out.body.results)

\* 3 hits of documents and 2 of images came back as 5 results
C2_Witness ==
    \E r \in UnifiedDone :
        /\ \A c \in Collections : Healthy(r, c)
        /\ Len(StoreHits(r, "documents")) = 3
        /\ Len(StoreHits(r, "images")) = 2
        /\ tasks[Handler(r)].out.status = HttpOk
        /\ Len(tasks[Handler(r)].out.body.results) = 5

\* the hits handed to the stand-alone merge
MergeHits ==
    UNION { { mIn.lists[k][i] : i \in 1..Len(mIn.lists[k]) } : k \in 1..Len(mIn.lists) }

MergeTotal == Len(mIn.lists[1]) + Len(mIn.lists[2])

\* the hit of the input that entry e of the merged list shows
MergeSource(e) == { h \in MergeHits : h.id = e.id /\ h.score = e.score }

\* C3: the merged list has min(total hits, 2 x limit) entries, each a
\* different hit of the input, and no hit left out scores more than an
\* entry kept.
C3_TruncatesToTwiceLimit ==
    mStage = "returned" =>
        /\ Len(mOut) = Min(MergeTotal, 2 * mIn.limit)
        /\ \A i \in 1..Len(mOut) : MergeSource(mOut[i]) # {}
        /\ \A i, j \in 1..Len(mOut) : i # j => mOut[i].id # mOut[j].id
        /\ \A h \in MergeHits :
              (\A i \in 1..Len(mOut) : mOut[i].id # h.id) =>
                  \A i \in 1..Len(mOut) : mOut[i].score >= h.score

\* more hits than 2 x limit went in, of unequal scores, and 2 x limit came out
C3_Witness ==
    /\ mStage = "returned"
    /\ MergeTotal > 2 * mIn.limit
    /\ Len(mOut) = 2 * mIn.limit
    /\ \E h \in MergeHits : h.score < mOut[Len(mOut)].score


\* C4: whichever searches fail, unified search answers without an error and
\* with exactly the hits of the collections that answered: N hits when one
\* fails and the other returns N, an empty list when all fail.
C4_FailedCollectionsDropOut ==
    \A r \in UnifiedDone :
        /\ ShowsExactly(r, { c \in Collections : Healthy(r, c) })
        /\ (\A c \in Collections : ~Healthy(r, c)) =>
              tasks[Handler(r)].out = Response([query |-> tasks[Handler(r)].query,
                                                results |-> <<>>])

\* one search failed in transport on a collection holding points, the other
\* returned N >= 1 hits, and the response has N results
C4_Witness ==
    \E r \in UnifiedDone : \E c, d \in Collections :
        /\ tasks[Child(r, c)].resp.kind = "transport"
        /\ points[c] # {}
        /\ Healthy(r, d)
        /\ Len(StoreHits(r, d)) >= 1
        /\ tasks[Handler(r)].out.status = HttpOk
        /\ Len(tasks[Handler(r)].out.body.results) = Len(StoreHits(r, d))

\* the unified searches that have passed their gather
PastGather(r) ==
    /\ tasks[Handler(r)].kind = "unified_search"
    /\ tasks[Handler(r)].pc \in {"gather_ready", "done"}
    /\ tasks[Handler(r)].embeddings # <<>>

\* C5: unified search goes on to build its result only when every search it
\* launched has returned, each on its own reply from the store.
C5_WaitsForEverySearch ==
    \A r \in 1..MaxReqs :
        PastGather(r) =>
            \A c \in Children(r) : tasks[c].pc = "done" /\ tasks[c].resp # NoResp

\* unified search was woken with one search failed and the other, answered
\* after it, holding hits
C5_Witness ==
    \E r \in 1..MaxReqs : \E c, d \in Collections :
        /\ PastGather(r)
        /\ tasks[Handler(r)].pc = "gather_ready"
        /\ ~Success(tasks[Child(r, c)].resp)
        /\ Len(StoreHits(r, d)) >= 1

\* C6: the searches of one unified search overlap: no search has taken up
\* its reply before every other search has sent its request.
C6_SearchesRunConcurrently ==
    \A r \in 1..MaxReqs :
        (tasks[Handler(r)].kind = "unified_search" /\ tasks[Handler(r)].embeddings # <<>>
         /\ tasks[Handler(r)].pc # "start") =>
            \A c, d \in Children(r) :
                (c # d /\ tasks[c].pc = "done") => tasks[d].sent.search >= 1

\* both searches of a unified search are in flight at once
C6_Witness ==
    \E r \in 1..MaxReqs :
        /\ tasks[Handler(r)].pc = "gather_wait"
        /\ \A c \in Collections :
              Waiting(Child(r, c)) /\ tasks[Child(r, c)].req.op = "search"

\* task t is resumed in this step with the reply it waited for
Resumed(t) == tasks[t].pc # "done" /\ tasks[t].resp # NoResp /\ tasks'[t] # tasks[t]

\* the create request the registry asks for
RegisteredCreate(name) ==
    [op |-> "create", coll |-> name,
     body |-> [name |-> name,
               vectors |-> [size |-> IF name = "documents" THEN TextDim ELSE ClipDim,
                            distance |-> "Cosine"]]]

C7_Step ==
    /\ \A t \in TaskIds :
          LET creates == /\ tasks'[t].kind = tasks[t].kind
                         /\ tasks'[t].sent.create = tasks[t].sent.create + 1
          IN  /\ creates <=> /\ Resumed(t)
                             /\ tasks[t].pc = "init_probe"
                             /\ tasks[t].resp.kind = "http"
                             /\ tasks[t].resp.status = HttpNotFound
              /\ creates => tasks'[t].req = RegisteredCreate(tasks[t].req.coll)
              /\ initialized => /\ tasks'[t].sent.create <= tasks[t].sent.create
                                /\ tasks'[t].sent.probe <= tasks[t].sent.probe
    /\ \A c \in Collections : storeDim[c] # 0 => storeDim'[c] = storeDim[c]
    /\ initialized => storeDim' = storeDim

\* C7: a create request, with the registered dimension and Cosine, is issued
\* exactly when the probe of that collection is answered 404; a collection
\* that exists is never altered; once ensure_collections has returned, later
\* calls send nothing and leave the store's collections as they are.
C7_EnsureIdempotent == [][C7_Step]_vars

\* startup created images, left alone a documents collection of another
\* vector size, and a later operation has called ensure_collections again
C7_Witness ==
    /\ tasks[StartupTask].pc = "done"
    /\ tasks[StartupTask].sent.create = 1
    /\ storeDim = [documents |-> ClipDim, images |-> ClipDim]
    /\ points["images"] = {}
    /\ \E r \in 1..MaxReqs : tasks[Handler(r)].pc \in {"upsert_wait", "gather_wait"}

\* the calls of the gateway's add_document that have returned or raised
AddCalls ==
    { t \in TaskIds : /\ tasks[t].kind \in {"add_document", "add_image"}
                      /\ tasks[t].pc = "done"
                      /\ tasks[t].req.op = "upsert" }

\* C8 as stated: add_document never raises, returns true when the store
\* answers with a 2xx status and false otherwise.
C8_TrueOnAny2xx ==
    \A t \in AddCalls :
        /\ ~tasks[t].result.exc
        /\ tasks[t].result.value = Success(tasks[t].resp)

\* C8: add_document never raises and returns a boolean: true when the store
\* answers with status 200, false on a transport error or any other status.
C8_TrueOnlyOn200 ==
    \A t \in AddCalls :
        /\ ~tasks[t].result.exc
        /\ tasks[t].result.value = (tasks[t].resp.kind = "http" /\ tasks[t].resp.status = HttpOk)

\* a write answered 200 returned true with the point in the store, the
\* handler answering "stored"
C8_Witness ==
    \E t \in AddCalls :
        /\ tasks[t].result = Ret(TRUE)
        /\ tasks[t].out.status = HttpOk
        /\ \E p \in points[tasks[t].req.coll] : p.id = tasks[t].doc_id

\* C9: nothing is sent twice: a task sends at most one write and at most one
\* search; a search that has returned sent exactly one request; a unified
\* search past its gather has sent one search per registered collection, from
\* the task of that collection, and none itself.
C9_AtMostOneAttempt ==
    /\ \A t \in TaskIds : tasks[t].sent.upsert <= 1 /\ tasks[t].sent.search <= 1
    /\ \A t \in SearchCalls \cup AddCalls :
          tasks[t].sent.upsert + tasks[t].sent.search = 1
    /\ \A r \in 1..MaxReqs :
          PastGather(r) =>
              /\ tasks[Handler(r)].sent.search = 0
              /\ \A c \in Collections :
                    /\ tasks[Child(r, c)].sent.search = 1
                    /\ tasks[Child(r, c)].req.coll = c

\* a unified search has answered after both its searches failed, one request
\* each
C9_Witness ==
    \E r \in UnifiedDone :
        \A c \in Collections :
            /\ tasks[Child(r, c)].resp.kind = "transport"
            /\ tasks[Child(r, c)].sent.search = 1

\* C10: each search request of a unified search goes to a registered
\* collection with that collection's own query vector (the text model's for
\* documents, the image model's text embedding for images, of the registered
\* size) and with the caller's limit and score_threshold.
C10_OwnVectorLimitThreshold ==
    \A r \in 1..MaxReqs : \A c \in Collections :
        LET P == tasks[Handler(r)]
            K == tasks[Child(r, c)]
        IN  (P.kind = "unified_search" /\ K.req.op = "search") =>
                /\ K.req.coll = c
                /\ K.req.body.vector = IF c = "documents" THEN get_embeddings(P.query)[1]
                                       ELSE get_text_embedding(P.query)[1]
                /\ K.req.body.vector.dim = IF c = "documents" THEN TextDim ELSE ClipDim
                /\ K.req.body.limit = P.limit
                /\ K.req.body.score_threshold = P.score_threshold

\* with limit 2 each collection contributed 2 hits: 4 results
C10_Witness ==
    \E r \in UnifiedDone :
        /\ tasks[Handler(r)].limit = 2
        /\ \A c \in Collections : Len(StoreHits(r, c)) = 2
        /\ tasks[Handler(r)].out.status = HttpOk
        /\ Len(tasks[Handler(r)].out.body.results) = 4

\* the request's input fails validation: an upload that is no image
InvalidInput(T) ==
    T.kind \in {"add_image", "find_similar_images"} /\ T.query \notin ValidImages

\* the request's embedding cannot be generated: a model it needs is not there
EmbeddingFails(T) ==
    \/ T.kind = "unified_search" /\ (~text_model \/ ~image_model)
    \/ T.kind = "add_document" /\ ~text_model
    \/ T.kind \in {"add_image", "find_similar_images"} /\ ~image_model

\* C11: a request whose validation or embedding fails ends in its first step
\* with an error response, having sent nothing to the store and started no
\* search; no point with the rejected upload is in the store.
C11_FailsBeforeAnyStoreRequest ==
    \A r \in 1..MaxReqs :
        LET T == tasks[Handler(r)]
        IN  (T.pc # "start" /\ (InvalidInput(T) \/ EmbeddingFails(T))) =>
                /\ T.pc = "done"
                /\ T.out \in {HTTPException("Invalid image format"),
                              HTTPException("AttributeError")}
                /\ T.sent = NoSent
                /\ T.req = NoReq
                /\ \A c \in Collections : tasks[Child(r, c)].kind = "none"
                /\ InvalidInput(T) =>
                      \A p \in points["images"] :
                          p.payload.image_data # encode_image_base64(T.query)

\* with the image model loaded, an ingestion of an upload that is no image
\* has ended with the validation error and nothing sent
C11_Witness ==
    \E r \in 1..MaxReqs :
        /\ image_model
        /\ tasks[Handler(r)].kind = "add_image"
        /\ tasks[Handler(r)].query = "notimg"
        /\ tasks[Handler(r)].pc = "done"
        /\ tasks[Handler(r)].out = HTTPException("Invalid image format")
        /\ tasks[Handler(r)].sent = NoSent

\* C12: a request that needs a model that is not loaded is answered with a
\* "not ready" error, not with the fault of calling a method on None.
C12_NotReadyError ==
    \A r \in 1..MaxReqs :
        LET T == tasks[Handler(r)]
        IN  (T.pc = "done" /\ EmbeddingFails(T)) =>
                /\ T.out # HTTPException("AttributeError")
                /\ T.out.detail = "not ready"

\* the health handler of request r answers in this step
HealthAnswers(r) ==
    /\ tasks[Handler(r)].kind = "health_check"
    /\ tasks[Handler(r)].pc = "start"
    /\ tasks'[Handler(r)].pc = "done"

\* C13: the flags of a health answer say, at the moment it is made, whether
\* the text model is loaded, whether the image model is loaded and whether
\* the store is reachable.
C13_HealthFlagsTrue ==
    [][\A r \in 1..MaxReqs :
          HealthAnswers(r) =>
              tasks'[Handler(r)].out.body.services =
                  [text_model |-> text_model, image_model |-> image_model,
                   qdrant |-> reachable]]_vars

\* the store answers the search of task t with status 200 in this step
SearchAnswered(t) ==
    /\ tasks[t].req.op = "search"
    /\ tasks[t].resp = NoResp
    /\ tasks'[t].resp # NoResp
    /\ tasks'[t].resp.kind = "http"
    /\ tasks'[t].resp.status = HttpOk

\* the points of collection c written through the gateway, each by an upsert
\* that reported success
Upserted(c) == { p \in points[c] : p.id >= FirstFreshId }

\* the list search_documents returns holds point p with its id, its payload
\* and the score of a vector with itself, which no hit exceeds
ReturnsPoint(hits, p) ==
    \E i \in 1..Len(hits) :
        /\ hits[i].id = p.id
        /\ hits[i].payload = p.payload
        /\ hits[i].score = Cosine(p.vector, p.vector)
        /\ \A j \in 1..Len(hits) : hits[j].score <= hits[i].score

\* the points of c other than p that score at least as high as p against v
Rivals(c, p, v) ==
    { q \in points[c] \ {p} : Cosine(q.vector, v) >= Cosine(p.vector, v) }

\* C14 as stated: a search with the very vector of an upserted point returns
\* that point, with its id, its payload and the maximal score.
C14_RoundTripAnyLimit ==
    [][\A t \in TaskIds :
          SearchAnswered(t) =>
              \A p \in Upserted(tasks[t].req.coll) :
                  p.vector = tasks[t].req.body.vector =>
                      ReturnsPoint(search_documents_return(tasks'[t].resp).value, p)]_vars

\* C14: a search with the very vector of an upserted point returns that
\* point, with its id, its payload and the maximal score, when the caller's
\* limit is larger than the number of other points of the collection that
\* score as high.
C14_RoundTrip ==
    [][\A t \in TaskIds :
          SearchAnswered(t) =>
              \A p \in Upserted(tasks[t].req.coll) :
                  (/\ p.vector = flatten(tasks[t].embedding)
                   /\ Cardinality(Rivals(tasks[t].req.coll, p, p.vector)) < tasks[t].limit) =>
                      ReturnsPoint(search_documents_return(tasks'[t].resp).value, p)]_vars

\* a search has returned a point written through the gateway, found with its
\* own vector: same id, same payload, score of the vector with itself
C14_Witness ==
    \E t \in TaskIds :
        /\ tasks[t].req.op = "search"
        /\ tasks[t].resp.kind = "http"
        /\ tasks[t].resp.status = HttpOk
        /\ \E p \in Upserted(tasks[t].req.coll) :
              /\ p.vector = tasks[t].req.body.vector
              /\ ReturnsPoint(tasks[t].resp.result, p)

\* the squared length of a row
Norm2(row) == row.xy[1] * row.xy[1] + row.xy[2] * row.xy[2]

\* the row has length 1.0 to within the resolution of the arithmetic (one
\* hundredth here, where the floats of the code give 1e-6)
UnitLength(row) ==
    /\ (Unit - 1) * (Unit - 1) <= Norm2(row)
    /\ Norm2(row) <= (Unit + 1) * (Unit + 1)

Iterated(r) ==
    LET D == StoreHits(r, "documents")
        I == StoreHits(r, "images")
    IN  [k \in 1..(Len(D) + Len(I)) |->
            IF k <= Len(D) THEN Shown(D[k], "documents")
            ELSE Shown(I[k - Len(D)], "images")]

\* entry x comes before entry y in the one order the claim allows: by higher
\* score, and by place in the iteration among equal scores
Before(E, x, y) ==
    LET Pos(z) == CHOOSE k \in 1..Len(E) : E[k] = z
    IN  \/ x.score > y.score
        \/ x.score = y.score /\ Pos(x) < Pos(y)

\* C16: in whatever order the searches of a unified search completed, the
\* response is the one list their hit lists determine: the hits by falling
\* score, equal scores in the order of iteration (documents before images,
\* within a collection as the store listed them), cut after 2 x limit.
C16_OrderOfCompletionIrrelevant ==
    \A r \in UnifiedDone :
        LET E == Iterated(r)
            R == tasks[Handler(r)].out.body.results
            In(x) == \E j \in 1..Len(R) : R[j] = x
        IN  /\ tasks[Handler(r)].out.status = HttpOk
            /\ Len(R) = Min(Len(E), 2 * tasks[Handler(r)].limit)
            /\ \A j \in 1..Len(R) : \E k \in 1..Len(E) : E[k] = R[j]
            /\ \A i, j \in 1..Len(R) : i < j => Before(E, R[i], R[j])
            /\ \A k \in 1..Len(E) :
                  ~In(E[k]) => \A j \in 1..Len(R) : Before(E, R[j], E[k])

\* a response with two text hits of one score, in the store's order, ahead of
\* an image hit of that same score
C16_Witness ==
    \E r \in UnifiedDone :
        LET R == tasks[Handler(r)].out.body.results
            D == StoreHits(r, "documents")
        IN  /\ tasks[Handler(r)].out.status = HttpOk
            /\ \E i, j, k \in 1..Len(R) :
                  /\ i < j /\ j < k
                  /\ R[i].score = R[j].score /\ R[j].score = R[k].score
                  /\ R[i].source_type = "text" /\ R[j].source_type = "text"
                  /\ R[k].source_type = "image"
                  /\ \E a, b \in 1..Len(D) : a < b /\ D[a].id = R[i].id /\ D[b].id = R[j].id

\* the probes, and the create requests, sent so far by all tasks
Sent(op) == { <<t, k>> \in TaskIds \X (1..(2 * Len(CollOrder))) : k <= tasks[t].sent[op] }

\* C17: whoever calls ensure_collections and whenever, one client probes each
\* registered collection at most once and asks for its creation at most once.
C17_InitAtMostOnce ==
    /\ Cardinality(Sent("probe")) <= Len(CollOrder)
    /\ Cardinality(Sent("create")) <= Len(CollOrder)

=============================================================================
